---- MODULE Spec2Model ----
(***************************************************************************)
(* Packed bit-field codec of the bitfield crate: create_bit_mask,          *)
(* copy_bits, get_field_data and set_field_data (src/bitfield/src/lib.rs)  *)
(* and the accessors generated by #[bitfield]                              *)
(* (src/bitfield/impl/src/bitfield.rs).                                    *)
(*                                                                         *)
(* A byte is an integer 0..255.  A buffer is a sequence of bytes; the Rust *)
(* index k is the TLA+ index k + 1.  copy_bits runs one loop iteration per *)
(* step, so the state holds its three cursors and the two buffers it was   *)
(* handed.                                                                 *)
(***************************************************************************)
EXTENDS Integers, Sequences, FiniteSets, TLC

\* ---------------------------------------------------------------- bounds
\* Length in bytes of the packed buffers the calls are made on.
BufLen == 3
\* Largest FIELD_DATA_BYTE_COUNT the calls are instantiated with.
MaxN == 4
\* Length in bytes of the source buffers handed to copy_bits directly.
SrcLen == 2
\* create_bit_mask is called directly with both arguments in 0..MaxMaskArg.
MaxMaskArg == 9

\* ------------------------------------------------------------------ state
VARIABLES
    data,       \* the packed buffer (bitfield_data, the struct's data field)
    callee,     \* the function called last, "none" before the first call
    args,       \* its arguments
    field_data, \* set_field_data's argument, get_field_data's returned array
    mask,       \* create_bit_mask's returned byte
    source_data,                    \* copy_bits: source_data
    destination_data,               \* copy_bits: destination_data
    current_source_bit_index,       \* copy_bits: lib.rs:44
    current_destination_bit_index,  \* copy_bits: lib.rs:43
    remaining_bit_count,            \* copy_bits: lib.rs:45
    pc,         \* "idle", "loop" (in copy_bits), "returned", "panicked"
    before,     \* the destination of the last set_field_data or copy_bits
                \* call as it was when the call was made
    written,    \* per bit range, the last set_field_data call that returned
    fields,     \* bit widths of the struct's fields, << >> without a struct
    threads,    \* per thread, the call it runs and the locals of its
                \* copy_bits; << >> when there is one thread
    gen         \* gen_bit_width_types!: its input, its loop variable and
                \* the types it has generated

frame_vars == <<source_data, destination_data, current_source_bit_index,
                current_destination_bit_index, remaining_bit_count>>

vars == <<data, callee, args, field_data, mask, source_data, destination_data,
          current_source_bit_index, current_destination_bit_index,
          remaining_bit_count, pc, before, written, fields, threads, gen>>

\* gen_bit_width_types! is not looked at.
no_gen == [start |-> 0, end |-> 0, bit_width |-> 0, types |-> << >>]

\* The running copy_bits call as a frame.
frame ==
    [src |-> source_data, dst |-> destination_data,
     cs |-> current_source_bit_index, cd |-> current_destination_bit_index,
     rem |-> remaining_bit_count, panic |-> FALSE]

Args(n, start, count, source_start, destination_start) ==
    [n |-> n, bit_start_index |-> start, bit_count |-> count,
     source_bit_start_index |-> source_start,
     destination_bit_start_index |-> destination_start]

\* ------------------------------------------------------- u8 arithmetic
Min(a, b) == IF a <= b THEN a ELSE b

\* Bit j of a byte, j = 0 being the most significant bit.
BitOf(byte, j) == (byte \div (2 ^ (7 - j))) % 2

FromBits(f) ==
    f[0] * 128 + f[1] * 64 + f[2] * 32 + f[3] * 16 + f[4] * 8 + f[5] * 4 + f[6] * 2 + f[7]

\* a & b, a | b, !a, a << k and a >> k on u8
BitAnd(a, b) == FromBits([j \in 0..7 |-> BitOf(a, j) * BitOf(b, j)])
BitOr(a, b) == FromBits([j \in 0..7 |-> IF BitOf(a, j) + BitOf(b, j) > 0 THEN 1 ELSE 0])
BitNot(a) == 255 - a
Shl(a, k) == (a * (2 ^ k)) % 256
Shr(a, k) == a \div (2 ^ k)

\* Rust's % on isize: the result has the sign of the dividend.
RustRem(a, b) == IF a >= 0 THEN a % b ELSE 0 - ((0 - a) % b)

\* Bit k of a buffer: bit (k mod 8), most significant first, of byte k div 8.
BufBit(buf, k) == BitOf(buf[(k \div 8) + 1], k % 8)

Zeros(n) == [i \in 1..n |-> 0]

\* u{8n}::to_le_bytes, as the generated setter calls it, bitfield.rs:60.
to_le_bytes(val, n) == [i \in 1..n |-> (val \div (256 ^ (i - 1))) % 256]

\* ------------------------------------------------------ create_bit_mask
\* The first assertion off by one.
create_bit_mask_lenient(bit_start_index, bit_count) ==
    IF ~(bit_start_index <= 8) \/ ~(bit_start_index + bit_count <= 8)
    THEN [ok |-> FALSE, value |-> 0]
    ELSE LET mask_usize == ((2 ^ bit_count) - 1) * (2 ^ (8 - bit_start_index - bit_count))
         IN  [ok |-> mask_usize <= 255, value |-> mask_usize]

\* The mask counted from the least significant bit.
create_bit_mask_from_lsb(bit_start_index, bit_count) ==
    IF ~(bit_start_index < 8) \/ ~(bit_start_index + bit_count <= 8)
    THEN [ok |-> FALSE, value |-> 0]
    ELSE LET mask_usize == ((2 ^ bit_count) - 1) * (2 ^ bit_start_index)
         IN  [ok |-> mask_usize <= 255, value |-> mask_usize]

\* lib.rs:28-34.  ok is FALSE when an assertion or the u8 conversion fails.
create_bit_mask(bit_start_index, bit_count) ==
    IF ~(bit_start_index < 8) \/ ~(bit_start_index + bit_count <= 8)
    THEN [ok |-> FALSE, value |-> 0]
    ELSE LET mask_usize == ((2 ^ bit_count) - 1) * (2 ^ (8 - bit_start_index - bit_count))
         IN  [ok |-> mask_usize <= 255, value |-> mask_usize]

\* ------------------------------------------------------------ copy_bits
\* The chunk bounded by the destination's byte boundary only, and by no
\* byte boundary at all.
chunk_bit_count_destination_only(remaining, cur_destination, cur_source) ==
    Min(remaining, 8 - (cur_destination % 8))

chunk_bit_count_unaligned(remaining, cur_destination, cur_source) ==
    Min(remaining, 8)

\* The byte boundaries taken one bit early.
chunk_bit_count_short(remaining, cur_destination, cur_source) ==
    Min(remaining, Min(7 - (cur_destination % 8), 7 - (cur_source % 8)))

\* The chunk cut to at most four bits.
chunk_bit_count_halved(remaining, cur_destination, cur_source) ==
    Min(Min(remaining, 4), Min(8 - (cur_destination % 8), 8 - (cur_source % 8)))

\* lib.rs:48-52
chunk_bit_count(remaining, cur_destination, cur_source) ==
    LET destination_chunk_bit_count == 8 - (cur_destination % 8)
        source_chunk_bit_count == 8 - (cur_source % 8)
        byte_aligned_chunk_bit_count ==
            Min(destination_chunk_bit_count, source_chunk_bit_count)
    IN  Min(remaining, byte_aligned_chunk_bit_count)

\* The offset taken from the source to the destination.
bit_offset_reversed(cur_destination, cur_source) ==
    RustRem((cur_source % 8) - (cur_destination % 8), 8)

\* lib.rs:57
bit_offset(cur_destination, cur_source) ==
    RustRem((cur_destination % 8) - (cur_source % 8), 8)

\* The source byte with its mask left out.
masked_source_data_unmasked(source_byte, source_mask) == source_byte

\* lib.rs:62-63
masked_source_data(source_byte, source_mask) == BitAnd(source_byte, source_mask)

\* The two shifts exchanged.
shifted_source_data_swapped(source_bits, offset) ==
    IF offset > 0 THEN Shl(source_bits, offset) ELSE Shr(source_bits, 0 - offset)

\* lib.rs:65-70
shifted_source_data(source_bits, offset) ==
    IF offset > 0 THEN Shr(source_bits, offset) ELSE Shl(source_bits, 0 - offset)

\* The mask applied without its negation, and no bit cleared at all.
cleared_destination_byte_unnegated(destination_byte, destination_mask) ==
    BitAnd(destination_byte, destination_mask)
cleared_destination_byte_kept(destination_byte, destination_mask) == destination_byte

\* lib.rs:60
cleared_destination_byte(destination_byte, destination_mask) ==
    BitAnd(destination_byte, BitNot(destination_mask))

\* The loop entered whatever the count.
loop_condition_always(remaining) == remaining >= 0

\* lib.rs:47
loop_condition(remaining) == remaining > 0

\* An iteration that ends the copy without a failure when an index is past
\* the end of its slice.
copy_chunk_truncating(f) ==
    IF f.cd \div 8 >= Len(f.dst) \/ f.cs \div 8 >= Len(f.src)
    THEN [src |-> f.src, dst |-> f.dst, cs |-> f.cs, cd |-> f.cd, rem |-> 0,
          panic |-> FALSE]
    ELSE LET chunk == chunk_bit_count(f.rem, f.cd, f.cs)
             cleared == cleared_destination_byte(f.dst[(f.cd \div 8) + 1],
                                                 create_bit_mask(f.cd % 8, chunk).value)
             bits == masked_source_data(f.src[(f.cs \div 8) + 1],
                                        create_bit_mask(f.cs % 8, chunk).value)
         IN  [src |-> f.src,
              dst |-> [f.dst EXCEPT ![(f.cd \div 8) + 1] =
                          BitOr(cleared, shifted_source_data(bits, bit_offset(f.cd, f.cs)))],
              cs |-> f.cs + chunk, cd |-> f.cd + chunk, rem |-> f.rem - chunk,
              panic |-> FALSE]

\* Both indexes checked before the destination byte is touched.
copy_chunk_checked_first(f) ==
    IF f.cd \div 8 >= Len(f.dst) \/ f.cs \div 8 >= Len(f.src)
    THEN [f EXCEPT !.panic = TRUE]
    ELSE copy_chunk_truncating(f)

\* One iteration of the while loop, lib.rs:48-76, on a frame
\* [src, dst, cs, cd, rem].  The result adds panic, which is TRUE when an
\* assertion of create_bit_mask or a slice bounds check fails; dst is then
\* the destination as the failed iteration left it.
copy_chunk(f) ==
    LET chunk == chunk_bit_count(f.rem, f.cd, f.cs)
        destination_mask == create_bit_mask(f.cd % 8, chunk)
        source_mask == create_bit_mask(f.cs % 8, chunk)
        offset == bit_offset(f.cd, f.cs)
        di == f.cd \div 8
        si == f.cs \div 8
        stop(d) == [src |-> f.src, dst |-> d, cs |-> f.cs, cd |-> f.cd,
                    rem |-> f.rem, panic |-> TRUE]
    IN  IF ~destination_mask.ok \/ ~source_mask.ok THEN stop(f.dst)
        ELSE IF di >= Len(f.dst) THEN stop(f.dst)
        ELSE LET cleared == cleared_destination_byte(f.dst[di + 1], destination_mask.value)
                 dst1 == [f.dst EXCEPT ![di + 1] = cleared]
             IN  IF si >= Len(f.src) THEN stop(dst1)
                 ELSE LET bits == masked_source_data(f.src[si + 1], source_mask.value)
                          shifted == shifted_source_data(bits, offset)
                      IN  [src |-> f.src,
                           dst |-> [f.dst EXCEPT ![di + 1] = BitOr(cleared, shifted)],
                           cs |-> f.cs + chunk,
                           cd |-> f.cd + chunk,
                           rem |-> f.rem - chunk,
                           panic |-> FALSE]

\* lib.rs:43-45, the frame at loop entry
copy_entry(source, destination, source_bit_start_index, destination_bit_start_index, count) ==
    [src |-> source, dst |-> destination, cs |-> source_bit_start_index,
     cd |-> destination_bit_start_index, rem |-> count, panic |-> FALSE]

RECURSIVE copy_loop(_)
copy_loop(f) == IF f.panic \/ ~loop_condition(f.rem) THEN f ELSE copy_loop(copy_chunk(f))

\* copy_bits run to its end, lib.rs:36-78
copy_bits(source, destination, source_bit_start_index, destination_bit_start_index, count) ==
    copy_loop(copy_entry(source, destination, source_bit_start_index,
                         destination_bit_start_index, count))

\* -------------------------------------------- get_field_data / set_field_data
\* The padding taken as the field's bits in its last byte, and the field
\* placed at the end of the whole array.
field_data_bit_start_index_low(n, count) == count % 8
field_data_bit_start_index_whole(n, count) == (n * 8) - count

\* lib.rs:93 and lib.rs:118.  For count > 8n the subtraction overflows
\* usize: with overflow checks it fails (subtraction_overflows), without
\* them it wraps to 2^64 + 8n - count, whose remainder by 8 is the
\* non-negative remainder of 8n - count, which is what % gives here.
field_data_bit_start_index(n, count) == ((n * 8) - count) % 8

subtraction_overflows(n, count) == count > n * 8

\* The destination of the call before, kept when it has the length asked for.
new_field_data_stale(n) == IF Len(destination_data) = n THEN destination_data ELSE Zeros(n)

\* lib.rs:87
new_field_data(n) == Zeros(n)

\* get_field_data::<n> and set_field_data::<n> run to their end on a
\* buffer, lib.rs:80-104 and lib.rs:106-127: the returned array, the buffer
\* as the call leaves it.
get_field_data(bitfield_data, n, start, count) ==
    copy_bits(bitfield_data, new_field_data(n), start,
              field_data_bit_start_index(n, count), count).dst

set_field_data(bitfield_data, value, n, start, count) ==
    copy_bits(value, bitfield_data, field_data_bit_start_index(n, count),
              start, count).dst

\* ----------------------------------------------------------------- inputs
\* Bytes of the buffers of get_field_data_tests and set_field_data_tests.
TestBytes == <<177, 229, 46>>
TestBuffer(len) == [i \in 1..len |-> TestBytes[((i - 1) % 3) + 1]]
Filled(len, byte) == [i \in 1..len |-> byte]

InitBuffers == {Zeros(BufLen), TestBuffer(BufLen)}
SourceBuffers == {TestBuffer(SrcLen), Filled(SrcLen, 170)}

\* The padding of the placement convention, as the specification states it.
Pad(n, count) == ((8 * n) - count) % 8

\* v with every bit outside array bits [Pad, Pad + count) cleared.
Convention(v, n, count) ==
    [i \in 1..n |->
        FromBits([j \in 0..7 |->
            IF Pad(n, count) <= 8 * (i - 1) + j /\ 8 * (i - 1) + j < Pad(n, count) + count
            THEN BitOf(v[i], j) ELSE 0])]

\* Values handed to set_field_data: all ones, the 0b10101010 bytes of the
\* tests, the integer 2 in little-endian bytes, and their convention forms.
RawValues(n) ==
    {Filled(n, 255), Filled(n, 170), [i \in 1..n |-> IF i = 1 THEN 2 ELSE 0]}
FieldValues(n, count) == RawValues(n) \cup {Convention(v, n, count) : v \in RawValues(n)}

\* ------------------------------------------------------------------- Init
Init ==
    /\ data \in InitBuffers
    /\ callee = "none"
    /\ args = Args(0, 0, 0, 0, 0)
    /\ field_data = << >>
    /\ mask = 0
    /\ source_data = << >>
    /\ destination_data = << >>
    /\ current_source_bit_index = 0
    /\ current_destination_bit_index = 0
    /\ remaining_bit_count = 0
    /\ pc = "idle"
    /\ before = << >>
    /\ written = {}
    /\ fields = << >>
    /\ threads = << >>
    /\ gen = no_gen

\* ---------------------------------------------------------------- actions
\* copy_bits is entered, lib.rs:43-45.
Enter(source, destination, source_start, destination_start, count) ==
    /\ source_data' = source
    /\ destination_data' = destination
    /\ current_source_bit_index' = source_start
    /\ current_destination_bit_index' = destination_start
    /\ remaining_bit_count' = count
    /\ pc' = "loop"

\* A direct call of create_bit_mask, lib.rs:28-34.
CallCreateBitMask ==
    /\ pc = "idle"
    /\ \E start \in 0..MaxMaskArg, count \in 0..MaxMaskArg :
          LET m == create_bit_mask(start, count)
          IN  /\ callee' = "create_bit_mask"
              /\ args' = Args(0, start, count, 0, 0)
              /\ mask' = m.value
              /\ pc' = IF m.ok THEN "returned" ELSE "panicked"
    /\ UNCHANGED <<data, field_data, frame_vars, before, written, fields, threads, gen>>

\* A direct call of copy_bits on two buffers, lib.rs:36-45.
CallCopyBits ==
    /\ pc = "idle"
    /\ \E source \in SourceBuffers, count \in 0..(8 * SrcLen) :
       \E source_start \in 0..(8 * SrcLen - count), destination_start \in 0..(8 * BufLen - count) :
          /\ callee' = "copy_bits"
          /\ args' = Args(0, 0, count, source_start, destination_start)
          /\ Enter(source, data, source_start, destination_start, count)
    /\ before' = data
    /\ UNCHANGED <<data, field_data, mask, written, fields, threads, gen>>

\* get_field_data::<n> up to its call of copy_bits, lib.rs:80-101.
get_field_data_call(n, start, count) ==
    /\ callee' = "get_field_data"
    /\ args' = Args(n, start, count, start, field_data_bit_start_index(n, count))
    /\ field_data' = << >>
    /\ Enter(data, new_field_data(n), start, field_data_bit_start_index(n, count), count)
    /\ UNCHANGED <<data, mask, before, written, fields, threads, gen>>

\* set_field_data::<n> up to its call of copy_bits, lib.rs:106-126.
set_field_data_call(n, value, start, count) ==
    /\ callee' = "set_field_data"
    /\ args' = Args(n, start, count, field_data_bit_start_index(n, count), start)
    /\ field_data' = value
    /\ Enter(value, data, field_data_bit_start_index(n, count), start, count)
    /\ before' = data
    /\ UNCHANGED <<data, mask, written, fields, threads, gen>>

CallGetFieldData ==
    /\ pc = "idle"
    /\ \E n \in 1..MaxN, count \in 1..(8 * BufLen) :
       \E start \in 0..(8 * BufLen - count) :
          /\ count <= 8 * n
          /\ get_field_data_call(n, start, count)

CallSetFieldData ==
    /\ pc = "idle"
    /\ \E n \in 1..MaxN, count \in 1..(8 * BufLen) :
       \E start \in 0..(8 * BufLen - count), value \in FieldValues(n, count) :
          /\ count <= 8 * n
          /\ set_field_data_call(n, value, start, count)

\* The field just written is read back with the same arguments.
ReadBack ==
    /\ pc = "returned"
    /\ callee = "set_field_data"
    /\ get_field_data_call(args.n, args.bit_start_index, args.bit_count)

\* One iteration of the loop of copy_bits, lib.rs:47-77.  set_field_data
\* writes through its &mut borrow, so data changes with the destination.
CopyChunk ==
    /\ pc = "loop"
    /\ loop_condition(remaining_bit_count)
    /\ LET f == copy_chunk(frame)
       IN  /\ source_data' = f.src
           /\ destination_data' = f.dst
           /\ current_source_bit_index' = f.cs
           /\ current_destination_bit_index' = f.cd
           /\ remaining_bit_count' = f.rem
           /\ pc' = IF f.panic THEN "panicked" ELSE "loop"
           /\ data' = IF callee = "set_field_data" THEN f.dst ELSE data
    /\ UNCHANGED <<callee, args, field_data, mask, before, written, fields, threads, gen>>

\* w is a returned write of the bit range the arguments a name.
SameRange(w, a) == w.start = a.bit_start_index /\ w.count = a.bit_count

\* The loop ends and the call returns, lib.rs:47, 78, 103, 127.
Return ==
    /\ pc = "loop"
    /\ ~loop_condition(remaining_bit_count)
    /\ pc' = "returned"
    /\ field_data' = IF callee = "get_field_data" THEN destination_data ELSE field_data
    /\ written' = IF callee = "set_field_data"
                  THEN {w \in written : ~SameRange(w, args)}
                       \cup {[n |-> args.n, value |-> field_data,
                               start |-> args.bit_start_index,
                               count |-> args.bit_count]}
                  ELSE written
    /\ UNCHANGED <<data, callee, args, mask, frame_vars, before, fields, threads, gen>>

Next ==
    \/ CallCreateBitMask
    \/ CallCopyBits
    \/ CallGetFieldData
    \/ CallSetFieldData
    \/ ReadBack
    \/ CopyChunk
    \/ Return

Spec == Init /\ [][Next]_vars

\* ------------------------------------- calls outside the preconditions
\* Offsets and counts reach this many bits past the end of a buffer.
Beyond == 2

\* get_field_data::<n> up to its call of copy_bits for any bit_count.
\* overflow_checks is the build's setting: a debug build fails at the
\* subtraction of lib.rs:93 when bit_count > 8n, a release build wraps.
get_field_data_entry(n, start, count, overflow_checks) ==
    IF overflow_checks /\ subtraction_overflows(n, count)
    THEN /\ callee' = "get_field_data"
         /\ args' = Args(n, start, count, start, start)
         /\ field_data' = << >>
         /\ pc' = "panicked"
         /\ UNCHANGED <<data, mask, frame_vars, before, written, fields, threads, gen>>
    ELSE get_field_data_call(n, start, count)

\* set_field_data::<n> likewise, lib.rs:118.
set_field_data_entry(n, value, start, count, overflow_checks) ==
    IF overflow_checks /\ subtraction_overflows(n, count)
    THEN /\ callee' = "set_field_data"
         /\ args' = Args(n, start, count, start, start)
         /\ field_data' = value
         /\ pc' = "panicked"
         /\ UNCHANGED <<data, mask, frame_vars, before, written, fields, threads, gen>>
    ELSE set_field_data_call(n, value, start, count)

\* copy_bits called with bit_count = 0 or with a range that leaves a buffer.
CallCopyBitsEdge ==
    /\ pc = "idle"
    /\ \E count \in 0..(8 * SrcLen + Beyond) :
       \E source_start \in 0..(8 * SrcLen + Beyond),
          destination_start \in 0..(8 * BufLen + Beyond) :
          /\ \/ count = 0
             \/ source_start + count > 8 * SrcLen
             \/ destination_start + count > 8 * BufLen
          /\ callee' = "copy_bits"
          /\ args' = Args(0, 0, count, source_start, destination_start)
          /\ Enter(TestBuffer(SrcLen), data, source_start, destination_start, count)
    /\ before' = data
    /\ UNCHANGED <<data, field_data, mask, written, fields, threads, gen>>

\* The arguments get_field_data and set_field_data do not accept: no bits,
\* more bits than the array has, a range that leaves the packed buffer.
EdgeArguments(n, start, count) ==
    \/ count = 0
    \/ count > 8 * n
    \/ start + count > 8 * BufLen

CallGetFieldDataEdge ==
    /\ pc = "idle"
    /\ \E n \in 1..MaxN, count \in 0..(8 * BufLen + Beyond), overflow_checks \in BOOLEAN :
       \E start \in 0..(8 * BufLen + Beyond) :
          /\ EdgeArguments(n, start, count)
          /\ get_field_data_entry(n, start, count, overflow_checks)

CallSetFieldDataEdge ==
    /\ pc = "idle"
    /\ \E n \in 1..MaxN, count \in 0..(8 * BufLen + Beyond), overflow_checks \in BOOLEAN :
       \E start \in 0..(8 * BufLen + Beyond) :
          /\ EdgeArguments(n, start, count)
          /\ set_field_data_entry(n, Filled(n, 255), start, count, overflow_checks)

NextEdge ==
    \/ CallCopyBitsEdge
    \/ CallGetFieldDataEdge
    \/ CallSetFieldDataEdge
    \/ CopyChunk
    \/ Return

SpecEdge == Init /\ [][NextEdge]_vars

\* copy_bits alone, with every argument tuple: ranges inside the buffers
\* and ranges that leave them.
NextCopy ==
    \/ CallCopyBits
    \/ CallCopyBitsEdge
    \/ CopyChunk
    \/ Return

SpecCopy == Init /\ [][NextCopy]_vars

\* ------------------------------------------------------ concurrent calls
NThreads == 2
Threads == 1..NThreads

\* The calls the threads make: array size, first bit and width of a field
\* of the packed buffer.
ConcCalls ==
    {[n |-> 1, bit_start_index |-> 0, bit_count |-> 3],
     [n |-> 2, bit_start_index |-> 5, bit_count |-> 11],
     [n |-> 2, bit_start_index |-> 3, bit_count |-> 16]}

\* One destination for the calls of all threads.
borrowed_destination_shared(t) == Min(t, 1)

\* The destination of thread t's call is its own: the array get_field_data
\* declares at lib.rs:87, the exclusive &mut borrow of set_field_data.
borrowed_destination(t) == t

idle_thread(buffer) ==
    [callee |-> "none", n |-> 0, bit_start_index |-> 0, bit_count |-> 0,
     value |-> << >>, dst |-> buffer, cs |-> 0, cd |-> 0, rem |-> 0,
     pc |-> "idle"]

\* Thread t's copy_bits call as a frame.  get_field_data reads the packed
\* buffer the threads share through its & borrow at every iteration.
thread_frame(t) ==
    [src |-> IF threads[t].callee = "get_field_data" THEN data ELSE threads[t].value,
     dst |-> threads[borrowed_destination(t)].dst,
     cs |-> threads[t].cs, cd |-> threads[t].cd, rem |-> threads[t].rem,
     panic |-> FALSE]

\* Every thread holds a packed buffer of its own, equal to the shared one.
InitConc ==
    /\ data \in InitBuffers
    /\ before = data
    /\ threads = [t \in Threads |-> idle_thread(data)]
    /\ gen = no_gen
    /\ callee = "none"
    /\ args = Args(0, 0, 0, 0, 0)
    /\ field_data = << >>
    /\ mask = 0
    /\ source_data = << >>
    /\ destination_data = << >>
    /\ current_source_bit_index = 0
    /\ current_destination_bit_index = 0
    /\ remaining_bit_count = 0
    /\ pc = "idle"
    /\ written = {}
    /\ fields = << >>

\* Thread t calls get_field_data on the shared buffer, lib.rs:80-101.
ThreadGet(t) ==
    /\ threads[t].pc = "idle"
    /\ \E c \in ConcCalls :
          LET o == borrowed_destination(t)
              pad == field_data_bit_start_index(c.n, c.bit_count)
              entered == [threads EXCEPT ![o].dst = new_field_data(c.n)]
          IN  threads' = [entered EXCEPT
                  ![t].callee = "get_field_data", ![t].n = c.n,
                  ![t].bit_start_index = c.bit_start_index,
                  ![t].bit_count = c.bit_count,
                  ![t].cs = c.bit_start_index, ![t].cd = pad,
                  ![t].rem = c.bit_count, ![t].pc = "loop"]
    /\ UNCHANGED <<data, callee, args, field_data, mask, frame_vars, pc, before,
                   written, fields, gen>>

\* Thread t calls set_field_data on its own buffer, lib.rs:106-126.
ThreadSet(t) ==
    /\ threads[t].pc = "idle"
    /\ \E c \in ConcCalls :
          threads' = [threads EXCEPT
              ![t].callee = "set_field_data", ![t].n = c.n,
              ![t].bit_start_index = c.bit_start_index,
              ![t].bit_count = c.bit_count,
              ![t].value = Filled(c.n, 170),
              ![t].cs = field_data_bit_start_index(c.n, c.bit_count),
              ![t].cd = c.bit_start_index,
              ![t].rem = c.bit_count, ![t].pc = "loop"]
    /\ UNCHANGED <<data, callee, args, field_data, mask, frame_vars, pc, before,
                   written, fields, gen>>

\* One iteration of thread t's copy_bits loop, lib.rs:47-77.
ThreadChunk(t) ==
    /\ threads[t].pc = "loop"
    /\ loop_condition(threads[t].rem)
    /\ LET f == copy_chunk(thread_frame(t))
           o == borrowed_destination(t)
           stored == [threads EXCEPT ![o].dst = f.dst]
       IN  threads' = [stored EXCEPT
               ![t].cs = f.cs, ![t].cd = f.cd, ![t].rem = f.rem,
               ![t].pc = IF f.panic THEN "panicked" ELSE "loop"]
    /\ UNCHANGED <<data, callee, args, field_data, mask, frame_vars, pc, before,
                   written, fields, gen>>

\* Thread t's loop ends and its call returns, lib.rs:47, 78, 103, 127.
ThreadReturn(t) ==
    /\ threads[t].pc = "loop"
    /\ ~loop_condition(threads[t].rem)
    /\ threads' = [threads EXCEPT ![t].pc = "returned"]
    /\ UNCHANGED <<data, callee, args, field_data, mask, frame_vars, pc, before,
                   written, fields, gen>>

NextConc ==
    \E t \in Threads :
        \/ ThreadGet(t)
        \/ ThreadSet(t)
        \/ ThreadChunk(t)
        \/ ThreadReturn(t)

SpecConc == InitConc /\ [][NextConc]_vars

\* ------------------------------------------------- the #[bitfield] struct
\* usize::next_power_of_two
RECURSIVE power_of_two_from(_, _)
power_of_two_from(p, bit_width) ==
    IF p >= bit_width THEN p ELSE power_of_two_from(2 * p, bit_width)
next_power_of_two(bit_width) == power_of_two_from(1, bit_width)

\* The accessor type without its least size.
accessor_type_size_unclamped(bit_width) == next_power_of_two(bit_width)

\* gen_bit_width_types.rs:17, the bits of B<bit_width>'s ACCESSOR
accessor_type_size(bit_width) ==
    IF next_power_of_two(bit_width) >= 8 THEN next_power_of_two(bit_width) ELSE 8

\* bitfield.rs:48, std::mem::size_of of the ACCESSOR
accessor_size(bit_width) == accessor_type_size(bit_width) \div 8

RECURSIVE bit_widths_sum(_, _)
bit_widths_sum(widths, k) ==
    IF k = 0 THEN 0 ELSE bit_widths_sum(widths, k - 1) + widths[k]

\* The filter of the fields before field i lets field i through.
current_field_bit_start_index_inclusive(widths, i) == bit_widths_sum(widths, i)

\* bitfield.rs:26-35 and 45: 0 + the BITS of the fields before field i
current_field_bit_start_index(widths, i) == bit_widths_sum(widths, i - 1)

\* bitfield.rs:73 and 79: data: [u8; (0 + BITS ...) / 8], zeroed by new()
new(widths) == Zeros(bit_widths_sum(widths, Len(widths)) \div 8)

\* Field widths of the structs: B1 B3 B4 next to a byte, fields that share
\* bytes with both neighbours, 9-, 11- and 13-bit fields behind unaligned
\* offsets, and two whole bytes.
Layouts ==
    {<<1, 3, 4, 8>>, <<3, 2, 11>>, <<9, 7>>, <<5, 6, 5>>, <<8, 8>>, <<1, 13, 2>>}

\* Integers handed to the setter of a field of bit_width bits: 1, the
\* largest that fits, and 0b10101010.
SetterValues(bit_width) == {1, (2 ^ bit_width) - 1, 170}

InitStruct ==
    /\ fields \in Layouts
    /\ data = new(fields)
    /\ callee = "none"
    /\ args = Args(0, 0, 0, 0, 0)
    /\ field_data = << >>
    /\ mask = 0
    /\ source_data = << >>
    /\ destination_data = << >>
    /\ current_source_bit_index = 0
    /\ current_destination_bit_index = 0
    /\ remaining_bit_count = 0
    /\ pc = "idle"
    /\ before = << >>
    /\ written = {}
    /\ threads = << >>
    /\ gen = no_gen

\* ------------------------------------------- the expansion of #[bitfield]
\* Structs of up to MaxFields fields of the specifiers B1..B<MaxWidth>.
MaxFields == 3
MaxWidth == 9
MacroLayouts == UNION {[1..k -> 1..MaxWidth] : k \in 1..MaxFields}

\* The generated getter of field i, bitfield.rs:44-52.
Getter ==
    /\ pc \in {"idle", "returned"}
    /\ \E i \in 1..Len(fields) :
          get_field_data_call(accessor_size(fields[i]),
                              current_field_bit_start_index(fields, i), fields[i])

\* The generated setter of field i, bitfield.rs:54-63.
Setter ==
    /\ pc \in {"idle", "returned"}
    /\ \E i \in 1..Len(fields) :
       \E val \in SetterValues(fields[i]) :
          set_field_data_call(accessor_size(fields[i]),
                              to_le_bytes(val, accessor_size(fields[i])),
                              current_field_bit_start_index(fields, i), fields[i])

NextStruct ==
    \/ Getter
    \/ Setter
    \/ CopyChunk
    \/ Return

SpecStruct == InitStruct /\ [][NextStruct]_vars

\* ------------------------------------------------ gen_bit_width_types!
\* lib.rs:20 invokes the macro on 1..=64; the model runs it on every range
\* from 1..MaxStart to 0..MaxBits.
MaxBits == 64
MaxStart == 2

InitTypes ==
    /\ \E start \in 1..MaxStart, end \in 0..MaxBits :
          gen = [start |-> start, end |-> end, bit_width |-> start, types |-> << >>]
    /\ pc = "parse"
    /\ fields = << >>
    /\ data = << >>
    /\ callee = "none"
    /\ args = Args(0, 0, 0, 0, 0)
    /\ field_data = << >>
    /\ mask = 0
    /\ source_data = << >>
    /\ destination_data = << >>
    /\ current_source_bit_index = 0
    /\ current_destination_bit_index = 0
    /\ remaining_bit_count = 0
    /\ before = << >>
    /\ written = {}
    /\ threads = << >>

\* gen_bit_width_types.rs:8 and 48-50: the input with end < start is an
\* error.
ParseInput ==
    /\ pc = "parse"
    /\ pc' = IF gen.end < gen.start THEN "rejected" ELSE "gen"
    /\ UNCHANGED <<data, callee, args, field_data, mask, frame_vars, before,
                   written, fields, threads, gen>>

\* One iteration of the loop of gen_bit_width_types.rs:15-28: the type
\* B<bit_width> with its BITS and the bits of its ACCESSOR.
GenType ==
    /\ pc = "gen"
    /\ gen.bit_width <= gen.end
    /\ gen' = [gen EXCEPT
                  !.types = Append(@, [type_name |-> gen.bit_width,
                                       BITS |-> gen.bit_width,
                                       ACCESSOR |-> accessor_type_size(gen.bit_width)]),
                  !.bit_width = @ + 1]
    /\ UNCHANGED <<data, callee, args, field_data, mask, frame_vars, pc, before,
                   written, fields, threads>>

\* The loop ends, gen_bit_width_types.rs:30-32.
GenDone ==
    /\ pc = "gen"
    /\ gen.bit_width > gen.end
    /\ pc' = "generated"
    /\ UNCHANGED <<data, callee, args, field_data, mask, frame_vars, before,
                   written, fields, threads, gen>>

\* A #[bitfield] struct of two fields of generated types is defined where
\* the library's own types B1..B<MaxBits> exist; it compiles, and new()
\* makes a value, bitfield.rs:70-80.
UseStruct ==
    /\ pc = "generated"
    /\ gen.start = 1 /\ gen.end = MaxBits
    /\ \E t \in 1..Len(gen.types), u \in 1..Len(gen.types) :
          /\ (gen.types[t].BITS + gen.types[u].BITS) % 8 = 0
          /\ fields' = <<gen.types[t].BITS, gen.types[u].BITS>>
          /\ data' = new(<<gen.types[t].BITS, gen.types[u].BITS>>)
    /\ pc' = "idle"
    /\ UNCHANGED <<callee, args, field_data, mask, frame_vars, before, written,
                   threads, gen>>

NextTypes ==
    \/ ParseInput
    \/ GenType
    \/ GenDone
    \/ UseStruct
    \/ Getter
    \/ CopyChunk
    \/ Return

SpecTypes == InitTypes /\ [][NextTypes]_vars

\* bitfield.rs:82-86 with checks.rs:12 and 20-50: checks() type-checks
\* only when Mod8<total % 8>'s Type is ZeroMod8.
TotalSizeIsMultipleOfEightBits(widths) == bit_widths_sum(widths, Len(widths)) % 8 = 0

\* The struct definition before the macro runs on it.
InitMacro ==
    /\ fields \in MacroLayouts
    /\ data = << >>
    /\ callee = "none"
    /\ args = Args(0, 0, 0, 0, 0)
    /\ field_data = << >>
    /\ mask = 0
    /\ source_data = << >>
    /\ destination_data = << >>
    /\ current_source_bit_index = 0
    /\ current_destination_bit_index = 0
    /\ remaining_bit_count = 0
    /\ pc = "macro"
    /\ before = << >>
    /\ written = {}
    /\ threads = << >>
    /\ gen = no_gen

\* The macro expands the struct, bitfield.rs:70-90, the expansion is
\* compiled and new() makes a value: the build stops when checks() does
\* not type-check.
Expand ==
    /\ pc = "macro"
    /\ data' = new(fields)
    /\ pc' = IF TotalSizeIsMultipleOfEightBits(fields) THEN "idle" ELSE "rejected"
    /\ UNCHANGED <<callee, args, field_data, mask, frame_vars, before, written,
                   fields, threads, gen>>

\* The program writes one field and reads fields.
NextMacro ==
    \/ Expand
    \/ Getter
    \/ (written = {} /\ Setter)
    \/ CopyChunk
    \/ Return

SpecMacro == InitMacro /\ [][NextMacro]_vars

\* ----------------------------------------------------------------- claims
Returned(fn) == callee = fn /\ pc = "returned"

InRange(k, start, count) == start <= k /\ k < start + count

CeilDiv8(count) == (count + 7) \div 8

\* C10: for start < 8 and start + count <= 8, count = 0 and count = 8
\* included, create_bit_mask returns the byte whose bit j (most significant
\* bit first) is 1 exactly for start <= j < start + count, which is the
\* number (2^count - 1) * 2^(8 - start - count).
C10_MaskValue ==
    (/\ callee = "create_bit_mask"
     /\ args.bit_start_index < 8
     /\ args.bit_start_index + args.bit_count <= 8)
    => /\ pc = "returned"
       /\ mask \in 0..255
       /\ \A j \in 0..7 :
             BitOf(mask, j) = 1 <=> InRange(j, args.bit_start_index, args.bit_count)
       /\ mask = ((2 ^ args.bit_count) - 1)
                 * (2 ^ (8 - args.bit_start_index - args.bit_count))

C10_Witness ==
    /\ Returned("create_bit_mask")
    /\ args.bit_start_index = 3
    /\ args.bit_count = 4
    /\ mask = 30

\* C5: when copy_bits returns from a call with both ranges inside their
\* buffers, destination bit destination_bit_start + i equals source bit
\* source_bit_start + i for every i < bit_count, every other destination
\* bit and the destination's length are as before the call, and no step of
\* the call changes the source.
C5_Returned ==
    Returned("copy_bits")
    => /\ \A i \in 0..(args.bit_count - 1) :
             BufBit(destination_data, args.destination_bit_start_index + i)
             = BufBit(source_data, args.source_bit_start_index + i)
       /\ Len(destination_data) = Len(before)
       /\ \A k \in 0..(8 * Len(before) - 1) :
             ~InRange(k, args.destination_bit_start_index, args.bit_count)
             => BufBit(destination_data, k) = BufBit(before, k)

C5_CopyBitsResult ==
    /\ []C5_Returned
    /\ [][(callee = "copy_bits" /\ pc = "loop") => source_data' = source_data]_vars

\* A copy between differently aligned offsets that spans a byte boundary on
\* both sides and changed the destination.
C5_Witness ==
    /\ Returned("copy_bits")
    /\ args.source_bit_start_index % 8 = 5
    /\ args.destination_bit_start_index % 8 = 2
    /\ args.bit_count = 11
    /\ destination_data # before

\* C3: when set_field_data returns, every bit of the packed buffer outside
\* [bit_start_index, bit_start_index + bit_count) has the value it had
\* before the call, and the buffer has the length it had.
C3_WriteFrame ==
    Returned("set_field_data")
    => /\ Len(data) = Len(before)
       /\ \A k \in 0..(8 * Len(before) - 1) :
             ~InRange(k, args.bit_start_index, args.bit_count)
             => BufBit(data, k) = BufBit(before, k)

\* A write that changed bits strictly inside a byte and ended mid-byte.
C3_Witness ==
    /\ Returned("set_field_data")
    /\ args.bit_start_index = 5
    /\ args.bit_count = 6
    /\ data # before
    /\ before = TestBuffer(BufLen)

\* C6: the array get_field_data::<N> returns holds packed bit
\* bit_start_index + i at array bit pad + i, pad = (8N - bit_count) mod 8,
\* for every i < bit_count; so the field's last bit is the least significant
\* bit of the byte at index ceil(bit_count / 8) - 1; and set_field_data
\* reads its source from the same pad.
C6_ReadPlacement ==
    /\ Returned("get_field_data")
       => /\ \A i \in 0..(args.bit_count - 1) :
                BufBit(field_data, Pad(args.n, args.bit_count) + i)
                = BufBit(data, args.bit_start_index + i)
          /\ BitOf(field_data[CeilDiv8(args.bit_count)], 7)
             = BufBit(data, args.bit_start_index + args.bit_count - 1)
    /\ callee = "set_field_data"
       => args.source_bit_start_index = Pad(args.n, args.bit_count)

\* The 23-bit read at bit 0 of the tests: every byte of the result differs
\* from the packed byte at the same index.
C6_Witness ==
    /\ Returned("get_field_data")
    /\ args.n = 3
    /\ args.bit_start_index = 0
    /\ args.bit_count = 23
    /\ data = TestBuffer(BufLen)
    /\ field_data = <<88, 242, 151>>

\* C7: in the array get_field_data::<N> returns, every byte at an index >=
\* ceil(bit_count / 8) is zero and the (8N - bit_count) mod 8 most
\* significant bits of byte 0 are zero; the zero bytes follow the bytes
\* that hold field bits.
C7_ZeroPadding ==
    Returned("get_field_data")
    => /\ Len(field_data) = args.n
       /\ \A i \in 1..args.n : i > CeilDiv8(args.bit_count) => field_data[i] = 0
       /\ \A j \in 0..7 : j < Pad(args.n, args.bit_count) => BitOf(field_data[1], j) = 0
       /\ \A i \in 1..args.n :
             (\E k \in 0..(args.bit_count - 1) :
                 (Pad(args.n, args.bit_count) + k) \div 8 = i - 1)
             <=> i <= CeilDiv8(args.bit_count)

\* A read of 11 one bits into a 4-byte array: 5 bits of padding in byte 0
\* and two unused bytes.
C7_Witness ==
    /\ Returned("get_field_data")
    /\ args.n = 4
    /\ args.bit_count = 11
    /\ field_data = <<7, 255, 0, 0>>

\* v with every bit outside array bits [Pad, Pad + count) set to bit.
StrayFilled(v, n, count, bit) ==
    [i \in 1..n |->
        FromBits([j \in 0..7 |->
            IF InRange(8 * (i - 1) + j, Pad(n, count), count)
            THEN BitOf(v[i], j) ELSE bit])]

\* v with every bit outside array bits [Pad, Pad + count) inverted.
StrayFlipped(v, n, count) ==
    [i \in 1..n |->
        FromBits([j \in 0..7 |->
            IF InRange(8 * (i - 1) + j, Pad(n, count), count)
            THEN BitOf(v[i], j) ELSE 1 - BitOf(v[i], j)])]

\* C9: when set_field_data returns, the packed buffer is the one the call
\* leaves when it is handed, on the same buffer, offset and bit_count, any
\* array that agrees with field_data on array bits [pad, pad + bit_count):
\* the one with the other bits cleared, set, or inverted.
C9_StrayBitsIgnored ==
    Returned("set_field_data")
    => \A v2 \in {StrayFilled(field_data, args.n, args.bit_count, 0),
                  StrayFilled(field_data, args.n, args.bit_count, 1),
                  StrayFlipped(field_data, args.n, args.bit_count)} :
          set_field_data(before, v2, args.n, args.bit_start_index, args.bit_count) = data

\* 11 bits of an all-ones 4-byte array written at bit 5 over zeros: 21 of
\* the array's bits are stray ones.
C9_Witness ==
    /\ Returned("set_field_data")
    /\ args.n = 4
    /\ args.bit_count = 11
    /\ args.bit_start_index = 5
    /\ field_data = Filled(4, 255)
    /\ before = Zeros(BufLen)
    /\ data # before

\* C8: no step of a get_field_data call changes the packed buffer, and the
\* array a call returns is the one the same call returns when it is run
\* alone on the same buffer contents, whatever calls came before it.
C8_ReadPurity ==
    /\ [][(callee = "get_field_data" /\ pc = "loop") => data' = data]_vars
    /\ [](Returned("get_field_data")
          => field_data = copy_bits(data, Zeros(args.n), args.bit_start_index,
                                    Pad(args.n, args.bit_count), args.bit_count).dst)

\* A read that follows a write through an array as long as the packed
\* buffer, and returns something other than the buffer.
C8_Witness ==
    /\ Returned("get_field_data")
    /\ written # {}
    /\ args.n = Len(data)
    /\ args.bit_count = 13
    /\ field_data # data
    /\ field_data # Zeros(args.n)

\* The write of the range that the returned read names.
WrittenHere == {w \in written : SameRange(w, args) /\ w.n = args.n}

\* C2: when get_field_data::<N> returns after set_field_data::<N> stored, at
\* the same offset and bit_count, an array V whose bits outside
\* [pad, pad + bit_count) are zero, it returns V, and the packed bits
\* outside the range are those from before the write.
C2_ConventionRoundTrip ==
    Returned("get_field_data")
    => \A w \in WrittenHere :
          Convention(w.value, w.n, w.count) = w.value
          => /\ field_data = w.value
             /\ \A k \in 0..(8 * Len(before) - 1) :
                   ~InRange(k, w.start, w.count) => BufBit(data, k) = BufBit(before, k)

\* 23 bits written at bit offset 1 through a 3-byte array and read back;
\* bit 0 of the buffer was 1 and still is.
C2_Witness ==
    /\ Returned("get_field_data")
    /\ args.n = 3
    /\ args.bit_start_index = 1
    /\ args.bit_count = 23
    /\ \E w \in WrittenHere : w.value = <<42, 170, 170>> /\ field_data = w.value
    /\ before = TestBuffer(BufLen)
    /\ BufBit(data, 0) = 1

\* v is the little-endian encoding of an integer below 2^count: byte i
\* (from 0) carries the weights 2^(8i) .. 2^(8i + 7), and no bit of weight
\* 2^count or more is set.
IsLeBelow(v, count) ==
    \A i \in 1..Len(v), j \in 0..7 : BitOf(v[i], j) = 1 => 8 * (i - 1) + (7 - j) < count

\* C1: when get_field_data::<N>, N in {1, 2, 4, 8}, returns after
\* set_field_data::<N> stored at the same offset and bit_count the
\* little-endian bytes V of an integer v < 2^bit_count, it returns V (and
\* from_le_bytes, which is one-to-one on N-byte arrays, gives v).
C1_IntegerRoundTrip ==
    (Returned("get_field_data") /\ args.n \in {1, 2, 4, 8})
    => \A w \in WrittenHere : IsLeBelow(w.value, w.count) => field_data = w.value

\* What a read of the field at the arguments a is to return: the
\* convention form of the last array written to it, zeros before any write.
LastWritten(a) ==
    IF \E w \in written : SameRange(w, a)
    THEN LET w == CHOOSE x \in written : SameRange(x, a)
         IN  Convention(w.value, w.n, w.count)
    ELSE Zeros(a.n)

\* The arrays the getters of all fields but the one at bit offset start
\* return on the buffer buf.
OtherReads(buf, start) ==
    [i \in {k \in 1..Len(fields) : current_field_bit_start_index(fields, k) # start} |->
        get_field_data(buf, accessor_size(fields[i]),
                       current_field_bit_start_index(fields, i), fields[i])]

\* C4: in a struct whose fields are disjoint bit ranges of a buffer that
\* starts all zero, after any sequence of writes every read of a field
\* returns the convention form of the array last written to that field, or
\* zeros when it was never written; and no step of a write changes what a
\* read of another field returns.
C4_NonInterference ==
    /\ [](Returned("get_field_data") => field_data = LastWritten(args))
    /\ [][(callee = "set_field_data" /\ pc = "loop")
          => OtherReads(data', args.bit_start_index) = OtherReads(data, args.bit_start_index)]_vars

\* All three fields of <<3, 2, 11>> have been written, the 2-bit one last
\* with 0b10101010, and its getter returns 0b10.
C4_Witness ==
    /\ Returned("get_field_data")
    /\ fields = <<3, 2, 11>>
    /\ Cardinality(written) = 3
    /\ args.bit_start_index = 3
    /\ \E w \in written : SameRange(w, args) /\ w.value = <<170>>
    /\ field_data = <<2>>
    /\ data = <<247, 7>>

\* The unsigned integer whose binary digits are bits start .. start +
\* count - 1 of buf, most significant first.
RECURSIVE BitsValue(_, _, _)
BitsValue(buf, start, count) ==
    IF count = 0 THEN 0
    ELSE 2 * BitsValue(buf, start, count - 1) + BufBit(buf, start + count - 1)

\* C11: for 1 <= bit_count <= 8 and any N, byte 0 of the array
\* get_field_data::<N> returns is the integer whose binary digits are the
\* packed bits of the field, most significant first, and every other byte
\* of the array is zero.
C11_NarrowRead ==
    (Returned("get_field_data") /\ args.bit_count <= 8)
    => /\ field_data[1] = BitsValue(data, args.bit_start_index, args.bit_count)
       /\ \A i \in 2..args.n : field_data[i] = 0

\* The 6-bit field at bit 5 of the tests, which straddles bytes 0 and 1,
\* read into a 2-byte array.
C11_Witness ==
    /\ Returned("get_field_data")
    /\ args.n = 2
    /\ args.bit_start_index = 5
    /\ args.bit_count = 6
    /\ data = TestBuffer(BufLen)
    /\ field_data = <<15, 0>>

\* C12: set_field_data::<1> stores the low bit_count bits of field_data[0]
\* in packed bits [bit_start_index, bit_start_index + bit_count), most
\* significant first; when those bits were stored already, the buffer is
\* left as it was.
C12_NarrowWrite ==
    (Returned("set_field_data") /\ args.n = 1)
    => /\ BitsValue(data, args.bit_start_index, args.bit_count)
          = field_data[1] % (2 ^ args.bit_count)
       /\ BitsValue(before, args.bit_start_index, args.bit_count)
          = field_data[1] % (2 ^ args.bit_count)
          => data = before

\* 0b101010 written over the 6-bit field at bit 5 of the tests.
C12_Witness ==
    /\ Returned("set_field_data")
    /\ args.n = 1
    /\ args.bit_start_index = 5
    /\ args.bit_count = 6
    /\ field_data = <<170>>
    /\ before = TestBuffer(BufLen)
    /\ data[1] = 181
    /\ data[2] = 69

ByteAligned(a) == a.bit_start_index % 8 = 0 /\ a.bit_count % 8 = 0

\* C13: with bit_start_index and bit_count multiples of 8, get_field_data
\* returns the packed bytes bit_start_index / 8 .. bit_start_index / 8 +
\* bit_count / 8 - 1 in their order, followed by zero bytes, and
\* set_field_data overwrites those packed bytes, and no other, with the
\* first bit_count / 8 bytes of field_data.
C13_ByteAligned ==
    /\ (Returned("get_field_data") /\ ByteAligned(args))
       => \A i \in 1..args.n :
             field_data[i] = IF i <= args.bit_count \div 8
                             THEN data[(args.bit_start_index \div 8) + i]
                             ELSE 0
    /\ (Returned("set_field_data") /\ ByteAligned(args))
       => \A k \in 1..Len(data) :
             data[k] = IF /\ k > args.bit_start_index \div 8
                          /\ k <= (args.bit_start_index + args.bit_count) \div 8
                       THEN field_data[k - (args.bit_start_index \div 8)]
                       ELSE before[k]

\* Two bytes of 0b10101010 written at byte 1 from a 3-byte array.
C13_Witness ==
    /\ Returned("set_field_data")
    /\ args.n = 3
    /\ args.bit_start_index = 8
    /\ args.bit_count = 16
    /\ field_data = Filled(3, 170)
    /\ before = TestBuffer(BufLen)
    /\ data[1] = 177
    /\ data[2] = 170
    /\ data[3] = 170

\* a followed by zero bytes up to length m.
Extend(a, m) == [i \in 1..m |-> IF i <= Len(a) THEN a[i] ELSE 0]

\* C14: for every size M >= N, get_field_data::<M> on the same buffer,
\* offset and bit_count returns the array get_field_data::<N> returned
\* followed by M - N zero bytes.
C14_SizeIndependence ==
    Returned("get_field_data")
    => \A m \in args.n..(MaxN + 1) :
          get_field_data(data, m, args.bit_start_index, args.bit_count)
          = Extend(field_data, m)

\* The 23-bit read at bit 1 of the tests, with N = 3 and M = 5.
C14_Witness ==
    /\ Returned("get_field_data")
    /\ args.n = 3
    /\ args.bit_start_index = 1
    /\ args.bit_count = 23
    /\ data = TestBuffer(BufLen)
    /\ field_data = <<49, 229, 46>>
    /\ get_field_data(data, 5, 1, 23) = <<49, 229, 46, 0, 0>>

\* C20: called with bit_start_index >= 8 or with bit_start_index +
\* bit_count > 8, create_bit_mask fails and returns no mask.
C20_MaskRejects ==
    (/\ callee = "create_bit_mask"
     /\ (args.bit_start_index >= 8 \/ args.bit_start_index + args.bit_count > 8))
    => pc = "panicked"

\* The first assertion alone fails: start 8, count 0.
C20_Witness ==
    /\ callee = "create_bit_mask"
    /\ args.bit_start_index = 8
    /\ args.bit_count = 0
    /\ pc = "panicked"


\* ------------------------------------------- calls outside the preconditions
\* copy_bits has been entered with bit_count >= 1 and a range that leaves
\* the source or the destination.
OutOfRange ==
    /\ callee \in {"copy_bits", "get_field_data", "set_field_data"}
    /\ Len(source_data) > 0
    /\ args.bit_count >= 1
    /\ \/ args.source_bit_start_index + args.bit_count > 8 * Len(source_data)
       \/ args.destination_bit_start_index + args.bit_count > 8 * Len(destination_data)

\* The destination as the call received it.
DestinationBefore ==
    IF callee = "get_field_data" THEN new_field_data(args.n) ELSE before

\* C15: a call with bit_count >= 1 whose range leaves the source or the
\* destination never returns normally: while it runs bits remain to copy,
\* every iteration copies some bits or fails the bounds check, and no bit
\* of the destination below the destination start is touched.
C15_OutOfRangeFails ==
    /\ [](OutOfRange =>
            /\ pc # "returned"
            /\ pc = "loop" => remaining_bit_count > 0
            /\ \A k \in 0..(Min(args.destination_bit_start_index,
                                8 * Len(destination_data)) - 1) :
                  BufBit(destination_data, k) = BufBit(DestinationBefore, k))
    /\ [][(OutOfRange /\ pc = "loop") =>
            \/ pc' = "panicked"
            \/ remaining_bit_count' < remaining_bit_count]_vars

\* copy_bits failed on the destination after it copied some of the bits.
C15_Witness ==
    /\ callee = "copy_bits"
    /\ OutOfRange
    /\ args.source_bit_start_index + args.bit_count <= 8 * Len(source_data)
    /\ pc = "panicked"
    /\ remaining_bit_count < args.bit_count

\* C16: get_field_data and set_field_data called with bit_count = 0 do not
\* return normally.
C16_ZeroWidthRejected ==
    (callee \in {"get_field_data", "set_field_data"} /\ args.bit_count = 0)
        => pc # "returned"

OverWide ==
    /\ callee \in {"get_field_data", "set_field_data"}
    /\ args.bit_count > 8 * args.n

\* C17: get_field_data::<N> and set_field_data::<N> called with
\* bit_count > 8N never return, in a build with overflow checks and in one
\* without: get_field_data yields no array, and while copy_bits runs every
\* iteration copies some bits or fails.
C17_OverWideRejected ==
    /\ [](OverWide =>
            /\ pc \in {"loop", "panicked"}
            /\ pc = "loop" => remaining_bit_count > 0
            /\ callee = "get_field_data" => field_data = << >>)
    /\ [][(OverWide /\ pc = "loop") =>
            \/ pc' = "panicked"
            \/ remaining_bit_count' < remaining_bit_count]_vars

\* Without overflow checks: the subtraction wrapped, copy_bits ran on a
\* range inside the packed buffer and failed on the array.
C17_Witness ==
    /\ callee = "get_field_data"
    /\ OverWide
    /\ args.bit_start_index + args.bit_count <= 8 * Len(data)
    /\ Len(destination_data) = args.n
    /\ remaining_bit_count < args.bit_count
    /\ pc = "panicked"

ZeroCount == callee = "copy_bits" /\ args.bit_count = 0

\* C18: copy_bits with bit_count = 0 returns normally whatever the
\* offsets: it never fails, its first step is the return, and the
\* destination and the cursors are as they were at the call.
C18_ZeroCountNoOp ==
    /\ [](ZeroCount =>
            /\ pc \in {"loop", "returned"}
            /\ destination_data = before
            /\ data = before
            /\ current_source_bit_index = args.source_bit_start_index
            /\ current_destination_bit_index = args.destination_bit_start_index)
    /\ [][(ZeroCount /\ pc = "loop") => pc' = "returned"]_vars

\* A zero-bit copy with both offsets beyond the ends has returned.
C18_Witness ==
    /\ ZeroCount
    /\ pc = "returned"
    /\ args.source_bit_start_index > 8 * Len(source_data)
    /\ args.destination_bit_start_index > 8 * Len(destination_data)


\* ------------------------------------------------------ concurrent calls
\* C19: whatever the interleaving of the threads' iterations, a
\* get_field_data call that returned holds the array the call returns when
\* it runs alone on the shared buffer, a set_field_data call that returned
\* left its own buffer as the call alone leaves it, no call fails, and the
\* shared buffer is as it was at the start.
C19_ConcurrentCalls ==
    /\ data = before
    /\ \A t \in DOMAIN threads :
          /\ threads[t].pc # "panicked"
          /\ (threads[t].pc = "returned" /\ threads[t].callee = "get_field_data") =>
                threads[t].dst = get_field_data(data, threads[t].n,
                                                threads[t].bit_start_index,
                                                threads[t].bit_count)
          /\ (threads[t].pc = "returned" /\ threads[t].callee = "set_field_data") =>
                threads[t].dst = set_field_data(before, threads[t].value, threads[t].n,
                                                threads[t].bit_start_index,
                                                threads[t].bit_count)

\* Two reads of overlapping fields of the shared buffer are in flight at
\* once, each between two iterations of its loop.
C19_Witness ==
    /\ DOMAIN threads # {}
    /\ \A t \in {1, 2} :
          /\ threads[t].pc = "loop"
          /\ threads[t].callee = "get_field_data"
          /\ 0 < threads[t].rem /\ threads[t].rem < threads[t].bit_count
          /\ threads[t].dst # Zeros(threads[t].n)
    /\ threads[1].bit_start_index # threads[2].bit_start_index

\* ------------------------------------------------ the loop of copy_bits
\* The loop is at its head and makes another iteration.
Iterating == pc = "loop" /\ remaining_bit_count > 0

Min3(a, b, c) == Min(a, Min(b, c))

\* The chunk the iteration at hand copies.
ChunkNow ==
    chunk_bit_count(remaining_bit_count, current_destination_bit_index,
                    current_source_bit_index)

\* C21: at every iteration of copy_bits the chunk is the least of the bits
\* that remain, the bits to the source's byte boundary and the bits to the
\* destination's byte boundary; it has 1 to 8 bits, they lie in one byte of
\* the source and in one byte of the destination, and it is the amount the
\* iteration advances by.
C21_ChunkInvariant ==
    /\ [](Iterating =>
            /\ ChunkNow = Min3(remaining_bit_count,
                               8 - (current_source_bit_index % 8),
                               8 - (current_destination_bit_index % 8))
            /\ 1 <= ChunkNow /\ ChunkNow <= 8
            /\ (current_source_bit_index + ChunkNow - 1) \div 8
               = current_source_bit_index \div 8
            /\ (current_destination_bit_index + ChunkNow - 1) \div 8
               = current_destination_bit_index \div 8)
    /\ [][(Iterating /\ pc' = "loop") =>
            current_source_bit_index' - current_source_bit_index
            = Min3(remaining_bit_count, 8 - (current_source_bit_index % 8),
                   8 - (current_destination_bit_index % 8))]_vars

\* An iteration past the first whose chunk ends before both byte
\* boundaries because no more bits remain.
C21_Witness ==
    /\ Iterating
    /\ callee = "copy_bits"
    /\ remaining_bit_count < args.bit_count
    /\ remaining_bit_count < 8 - (current_source_bit_index % 8)
    /\ remaining_bit_count < 8 - (current_destination_bit_index % 8)

\* C22: whatever the arguments of copy_bits, both create_bit_mask calls of
\* every iteration pass the two assertions and the conversion to a byte,
\* and a call that fails fails on an index past the end of a buffer.
C22_MaskPreconditions ==
    /\ Iterating =>
          /\ create_bit_mask(current_destination_bit_index % 8, ChunkNow).ok
          /\ create_bit_mask(current_source_bit_index % 8, ChunkNow).ok
          /\ create_bit_mask(current_destination_bit_index % 8, ChunkNow).value <= 255
          /\ create_bit_mask(current_source_bit_index % 8, ChunkNow).value <= 255
    /\ pc = "panicked" =>
          \/ current_destination_bit_index \div 8 >= Len(destination_data)
          \/ current_source_bit_index \div 8 >= Len(source_data)

\* An iteration of a call whose range leaves the destination, the source
\* cursor on the last bit of a byte and the destination cursor inside one.
C22_Witness ==
    /\ Iterating
    /\ callee = "copy_bits"
    /\ args.destination_bit_start_index + args.bit_count > 8 * Len(destination_data)
    /\ current_source_bit_index % 8 = 7
    /\ current_destination_bit_index % 8 = 3
    /\ remaining_bit_count > 8

\* The ranges of the copy_bits call lie inside its buffers.
CopyInRange ==
    /\ callee = "copy_bits"
    /\ args.source_bit_start_index + args.bit_count <= 8 * Len(source_data)
    /\ args.destination_bit_start_index + args.bit_count <= 8 * Len(destination_data)

\* C23: a copy_bits call on ranges inside its buffers ends.  At every loop
\* head with bits remaining the iteration does not fail, advances both
\* cursors by one amount of 1 to 8 bits and takes that amount from the
\* remaining count, which stays at or above 0; the step taken is that
\* iteration; and at the loop head with no bit remaining the call returns.
C23_Terminates ==
    /\ []((CopyInRange /\ Iterating) =>
            LET f == copy_chunk(frame)
                step == remaining_bit_count - f.rem
            IN  /\ ~f.panic
                /\ 1 <= step /\ step <= 8
                /\ f.rem >= 0
                /\ f.cs = current_source_bit_index + step
                /\ f.cd = current_destination_bit_index + step)
    /\ [][(CopyInRange /\ Iterating) =>
            /\ pc' = "loop"
            /\ remaining_bit_count' < remaining_bit_count
            /\ remaining_bit_count' >= 0]_vars
    /\ [][(CopyInRange /\ pc = "loop" /\ remaining_bit_count = 0) =>
            (pc' = "returned" /\ remaining_bit_count' = 0)]_vars

\* A copy of the whole source into the destination at another alignment
\* has returned.
C23_Witness ==
    /\ Returned("copy_bits")
    /\ args.bit_count = 8 * Len(source_data)
    /\ args.destination_bit_start_index % 8 = 3
    /\ remaining_bit_count = 0
    /\ current_source_bit_index = 8 * Len(source_data)

\* The iteration at hand: its offset, masks, bytes and bits.
OffsetNow == (current_destination_bit_index % 8) - (current_source_bit_index % 8)
DestinationMaskNow == create_bit_mask(current_destination_bit_index % 8, ChunkNow).value
SourceMaskNow == create_bit_mask(current_source_bit_index % 8, ChunkNow).value
SourceByteNow == source_data[(current_source_bit_index \div 8) + 1]
DestinationByteNow == destination_data[(current_destination_bit_index \div 8) + 1]
MaskedNow == BitAnd(SourceByteNow, SourceMaskNow)
ShiftedNow == IF OffsetNow > 0 THEN Shr(MaskedNow, OffsetNow) ELSE Shl(MaskedNow, 0 - OffsetNow)

\* Both bytes of the iteration at hand exist.
IndexesInside ==
    /\ current_source_bit_index \div 8 < Len(source_data)
    /\ current_destination_bit_index \div 8 < Len(destination_data)

\* C24: in every iteration of copy_bits that passes the index checks,
\* bit_offset is the destination cursor mod 8 less the source cursor mod 8
\* and lies in -7..7; the masked source bits go right by it when it is
\* positive and left by its negation otherwise; every masked 1-bit lands
\* in the byte, offset places on; the shifted value has no 1-bit outside
\* the destination mask; and the iteration leaves the destination with one
\* byte set to (old AND NOT destination mask) OR shifted value and every
\* other byte as it was.
C24_Repositioning ==
    /\ []((Iterating /\ IndexesInside) =>
            /\ bit_offset(current_destination_bit_index, current_source_bit_index)
               = OffsetNow
            /\ OffsetNow \in -7..7
            /\ shifted_source_data(masked_source_data(SourceByteNow, SourceMaskNow),
                                   bit_offset(current_destination_bit_index,
                                              current_source_bit_index))
               = ShiftedNow
            /\ \A j \in 0..7 :
                  BitOf(MaskedNow, j) = 1 =>
                     /\ j + OffsetNow \in 0..7
                     /\ BitOf(ShiftedNow, j + OffsetNow) = 1
            /\ BitAnd(ShiftedNow, BitNot(DestinationMaskNow)) = 0)
    /\ [][(Iterating /\ IndexesInside) =>
            destination_data' =
               [destination_data EXCEPT
                   ![(current_destination_bit_index \div 8) + 1] =
                       BitOr(BitAnd(DestinationByteNow, BitNot(DestinationMaskNow)),
                             ShiftedNow)]]_vars

\* An iteration moved bits to the left and another of the same call has
\* to move bits to the right: the iteration at hand has a positive offset
\* and 1-bits to move, the call began with a negative one.
C24_Witness ==
    /\ Iterating
    /\ IndexesInside
    /\ callee = "copy_bits"
    /\ OffsetNow > 0
    /\ MaskedNow # 0
    /\ (args.destination_bit_start_index % 8) < (args.source_bit_start_index % 8)
    /\ remaining_bit_count < args.bit_count
    /\ destination_data # before

\* The bits the copy_bits call has copied so far.
CopiedSoFar == args.bit_count - remaining_bit_count

\* C25: at the head of every iteration of copy_bits and at its exit, both
\* cursors are ahead of their start by the number of bits copied so far,
\* bit_count less the remaining count; the first that many bits of the
\* destination range equal the source range's, and every other bit of the
\* destination is as it was at the call.
C25_Lockstep ==
    (callee = "copy_bits" /\ pc \in {"loop", "returned"}) =>
        /\ current_source_bit_index - args.source_bit_start_index = CopiedSoFar
        /\ current_destination_bit_index - args.destination_bit_start_index = CopiedSoFar
        /\ CopiedSoFar \in 0..args.bit_count
        /\ \A i \in 0..(CopiedSoFar - 1) :
              BufBit(destination_data, args.destination_bit_start_index + i)
              = BufBit(source_data, args.source_bit_start_index + i)
        /\ Len(destination_data) = Len(before)
        /\ \A k \in 0..(8 * Len(before) - 1) :
              ~InRange(k, args.destination_bit_start_index, CopiedSoFar)
              => BufBit(destination_data, k) = BufBit(before, k)

\* A call between two iterations, a byte or more copied and bits to go, at
\* different alignments, the destination changed so far and
\* a 1-bit of the destination still to be overwritten with a 0.
C25_Witness ==
    /\ callee = "copy_bits"
    /\ Iterating
    /\ IndexesInside
    /\ CopiedSoFar >= 8
    /\ remaining_bit_count >= 2
    /\ OffsetNow # 0
    /\ destination_data # before
    /\ BufBit(destination_data, current_destination_bit_index) = 1
    /\ BufBit(source_data, current_source_bit_index) = 0

\* The bits of the ranges that lie before the first byte past the end of
\* the source or of the destination.
BitsBeforeTheEnd ==
    LET source_left == 8 * Len(source_data) - args.source_bit_start_index
        destination_left == 8 * Len(destination_data) - args.destination_bit_start_index
        left == Min(source_left, destination_left)
    IN  IF left > 0 THEN left ELSE 0

\* The failed iteration's index into the destination was inside it: the
\* check that failed is the source's.
SourceSideFailure ==
    /\ pc = "panicked"
    /\ current_destination_bit_index \div 8 < Len(destination_data)

\* C26: when copy_bits fails, the bits before the first byte past the end
\* of a buffer have all been copied and stay copied; when the source's
\* index check is the one that fails, the destination bits of the chunk at
\* hand are 0; every other bit of the destination is as it was at the
\* call.
C26_FailureNotAtomic ==
    (callee = "copy_bits" /\ pc = "panicked") =>
        /\ CopiedSoFar = BitsBeforeTheEnd
        /\ \A i \in 0..(CopiedSoFar - 1) :
              BufBit(destination_data, args.destination_bit_start_index + i)
              = BufBit(source_data, args.source_bit_start_index + i)
        /\ SourceSideFailure =>
              \A k \in 0..(ChunkNow - 1) :
                 BufBit(destination_data, current_destination_bit_index + k) = 0
        /\ \A k \in 0..(8 * Len(before) - 1) :
              (/\ ~InRange(k, args.destination_bit_start_index, CopiedSoFar)
               /\ ~(SourceSideFailure /\ InRange(k, current_destination_bit_index, ChunkNow)))
              => BufBit(destination_data, k) = BufBit(before, k)

\* The source ran out after some bits were copied: the copied bits changed
\* the destination, and the chunk at hand lost 1-bits it had at the call.
C26_Witness ==
    /\ callee = "copy_bits"
    /\ SourceSideFailure
    /\ CopiedSoFar > 8
    /\ \E i \in 0..(CopiedSoFar - 1) :
          BufBit(destination_data, args.destination_bit_start_index + i)
          # BufBit(before, args.destination_bit_start_index + i)
    /\ \E k \in 0..(ChunkNow - 1) :
          BufBit(before, current_destination_bit_index + k) = 1

\* The iterations the loop makes from a frame on, to its exit or failure.
RECURSIVE IterationsFrom(_)
IterationsFrom(f) ==
    IF f.panic \/ f.rem <= 0 THEN 0 ELSE 1 + IterationsFrom(copy_chunk(f))

\* C30: every chunk of copy_bits but the last ends on a byte boundary of
\* the source cursor or of the destination cursor; a copy of n >= 1 bits
\* makes at most 2 * ceil(n / 8) + 1 iterations; and when the two start
\* offsets are congruent modulo 8 every iteration has bit_offset 0 and
\* every chunk but the first and the last has 8 bits.
C30_ChunkBoundaries ==
    /\ [][(callee = "copy_bits" /\ Iterating /\ pc' = "loop"
           /\ remaining_bit_count' > 0) =>
            \/ current_source_bit_index' % 8 = 0
            \/ current_destination_bit_index' % 8 = 0]_vars
    /\ []((callee = "copy_bits" /\ Iterating) =>
            IterationsFrom(frame) <= 2 * CeilDiv8(remaining_bit_count) + 1)
    /\ []((callee = "copy_bits" /\ Iterating
           /\ args.source_bit_start_index % 8 = args.destination_bit_start_index % 8) =>
            bit_offset(current_destination_bit_index, current_source_bit_index) = 0)
    /\ [][(callee = "copy_bits" /\ Iterating /\ pc' = "loop"
           /\ args.source_bit_start_index % 8 = args.destination_bit_start_index % 8
           /\ CopiedSoFar > 0 /\ remaining_bit_count' > 0) =>
            remaining_bit_count - remaining_bit_count' = 8]_vars

\* A copy at two alignments that is about to make its fourth iteration,
\* and so alternated between the boundaries of the two buffers.
C30_Witness ==
    /\ callee = "copy_bits"
    /\ Iterating
    /\ args.source_bit_start_index % 8 # args.destination_bit_start_index % 8
    /\ IterationsFrom(copy_entry(source_data, before, args.source_bit_start_index,
                                 args.destination_bit_start_index, args.bit_count))
       - IterationsFrom(frame) = 3
    /\ current_source_bit_index % 8 # 0
    /\ current_destination_bit_index % 8 = 0

\* ------------------------------------------------- writes to disjoint fields
\* The buffer buf after the write w made alone.
WriteOf(buf, w) == set_field_data(buf, w.value, w.n, w.start, w.count)

\* The call at hand repeats the last write that returned for its range.
RepeatsLastWrite ==
    /\ callee = "set_field_data"
    /\ \E w \in written :
          SameRange(w, args) /\ w.n = args.n /\ w.value = field_data

\* C27: when two fields of a struct, disjoint bit ranges of one buffer,
\* have been written, in whatever order and however often, the buffer is
\* what the two last writes make of the new buffer in the one order and in
\* the other; and a write that repeats the last write of its range returns
\* with the buffer as it was at the call.
C27_WritesCommute ==
    /\ [](pc \in {"idle", "returned"} =>
            \A w1 \in written : \A w2 \in written \ {w1} :
                written = {w1, w2} =>
                   /\ data = WriteOf(WriteOf(new(fields), w1), w2)
                   /\ data = WriteOf(WriteOf(new(fields), w2), w1))
    /\ [][(RepeatsLastWrite /\ pc = "loop" /\ pc' = "returned") => data' = before]_vars

\* Two fields that share the first byte hold writes that set bits, and
\* the write that just returned left the buffer as it found it.
C27_Witness ==
    /\ Returned("set_field_data")
    /\ Cardinality(written) = 2
    /\ \A w \in written : w.start < 8 /\ w.count < 8
    /\ \E w \in written : w.start % 8 # 0 /\ w.value[1] = 170
    /\ data = before
    /\ data[1] \notin {0, 255}

\* ------------------------------------------------- the generated layout
\* The sum of the first k widths.
RECURSIVE WidthsUpTo(_, _)
WidthsUpTo(widths, k) == IF k = 0 THEN 0 ELSE widths[k] + WidthsUpTo(widths, k - 1)

TotalWidth == WidthsUpTo(fields, Len(fields))

\* The fields whose range of bits holds bit k.
FieldsAt(k) ==
    {i \in 1..Len(fields) :
        InRange(k, current_field_bit_start_index(fields, i), fields[i])}

\* C28: for a struct of fields of widths w_1..w_k the accessors of field i
\* use the bit offset w_1 + ... + w_(i-1) and the bit count w_i, and the
\* storage has floor(total / 8) bytes; every bit below the total width is
\* in the range of exactly one field; the struct compiles exactly when the
\* total is a multiple of 8, and then every field's range ends inside the
\* storage, every bit of the storage is in the range of exactly one field,
\* and no accessor call fails.
C28_Layout ==
    /\ \A i \in 1..Len(fields) :
          current_field_bit_start_index(fields, i) = WidthsUpTo(fields, i - 1)
    /\ \A k \in 0..(TotalWidth - 1) : Cardinality(FieldsAt(k)) = 1
    /\ pc # "macro" => Len(data) = TotalWidth \div 8
    /\ pc = "rejected" <=> (pc # "macro" /\ TotalWidth % 8 # 0)
    /\ callee \in {"get_field_data", "set_field_data"} =>
          \E i \in 1..Len(fields) :
             /\ args.bit_start_index = WidthsUpTo(fields, i - 1)
             /\ args.bit_count = fields[i]
    /\ pc \notin {"macro", "rejected"} =>
          /\ \A i \in 1..Len(fields) :
                current_field_bit_start_index(fields, i) + fields[i] <= 8 * Len(data)
          /\ \A k \in 0..(8 * Len(data) - 1) : Cardinality(FieldsAt(k)) = 1
          /\ pc # "panicked"

\* The getter of the last of three fields returned after the middle field,
\* which lies across a byte boundary, was written: the last field ends on
\* the last bit of the storage.
C28_Witness ==
    /\ Len(fields) = 3
    /\ Returned("get_field_data")
    /\ args.bit_start_index = fields[1] + fields[2]
    /\ args.bit_start_index + args.bit_count = 8 * Len(data)
    /\ fields[1] % 8 # 0
    /\ (fields[1] + fields[2]) % 8 # 0
    /\ fields[1] < 8 /\ fields[1] + fields[2] > 8
    /\ written # {}
    /\ data # Zeros(Len(data))

\* ------------------------------------------------- the generated specifiers
\* The least of 8, 16, 32 and 64 that is no less than w.
SmallestAccessor(w) ==
    CHOOSE m \in {8, 16, 32, 64} :
        m >= w /\ \A other \in {8, 16, 32, 64} : other >= w => m <= other

====
